---- MODULE Spec2Model ----
(***************************************************************************)
(* State-machine model of the Temporal activities of the Optimus backend   *)
(* (backend/activities/*.py): loan lifecycle, governance voting and tally, *)
(* BNPL installment calculation, scheduling and late fees, proportional     *)
(* distribution.  Every activity is one action, taken as a whole; the      *)
(* outcome of each external call it makes (ledger, contract, database      *)
(* commit) is a nondeterministic input of the action.                      *)
(***************************************************************************)
EXTENDS Integers, Sequences, FiniteSets

VARIABLES
    loanStatus,          \* Loan.status per loan id ("Absent": no such row)
    repaymentSchedules,  \* number of repayment-schedule sets stored per loan
    transfers,           \* confirmed ledger transfers issued by disburse_funds, per loan
    approvals,           \* approve_loan contract calls submitted, per loan
    riskScore,           \* RiskProfile.score per user
    appStatus,           \* BNPLAccess.status per application id
    votingPeriods,       \* VotingPeriod rows, in creation order
    votingRecords,       \* VotingRecord rows (ballots)
    lastTally,           \* history: the last successful tally per voting period
    reTallies,           \* history: tallies that repeated an earlier one
    bnplPayments,        \* BNPLPayment rows, in creation order
    calc,                \* what the last calculate_bnpl_installments returned
    paymentRequests,     \* PaymentRequest row per request id, with whether its users exist
    dist,                \* the last distribution run: inputs, shares, transfers
    paid,                \* ledger: amount transferred to each member so far, per kind
    dao,                 \* on-chain DAO per dao id: status, accepted dissolve_dao calls
    invocations,         \* distribution activities invoked so far
    lastActivity,        \* RiskProfile.last_activity_at per user, in days
    inactiveUsers,       \* the id list check_inactive_users returned last
    now,                 \* wall clock, in days
    ret                  \* what the last activity returned or raised

loanVars == <<loanStatus, repaymentSchedules, transfers, approvals, riskScore, appStatus>>
voteVars == <<votingPeriods, votingRecords, lastTally, reTallies>>
bnplVars == <<bnplPayments, calc, paymentRequests>>
distVars == <<dist, paid, dao, invocations>>
riskVars == <<lastActivity, inactiveUsers>>
lifecycleVars == <<loanStatus, repaymentSchedules, transfers, approvals, appStatus>>
vars == <<loanVars, voteVars, bnplVars, distVars, riskVars, now, ret>>

----------------------------------------------------------------------------
(* Identifiers and bounds *)

LoanIds == {"L1", "L2"}      \* "L2" is a loan id that never has a Loan row
UserIds == {"U1", "U2"}
AppIds == {"A1", "A2"}       \* "A2" is an application id that never has a row
DaoIds == {"D1"}            \* DAOMetadata rows that exist
UnknownDao == "D9"          \* a dao_id with no DAOMetadata row
VoterIds == {1, 2}
RequestIds == {"PR1", "PR2"}

MaxTransfers == 2           \* cap on confirmed transfers per loan
MaxApprovals == 2           \* cap on approve_loan contract calls per loan
MaxPeriods == 2             \* cap on VotingPeriod rows
MaxVotes == 6               \* cap on yes (and on no) ballots drawn for the tally
MaxTime == 8                \* cap on the clock
MaxReTallies == 2           \* cap on the repeated-tally history counter
MaxPayments == 4            \* cap on BNPLPayment rows
MaxScore == 6               \* largest initial risk score
MaxDay == 30                \* cap on the clock of the installment records
MaxParties == 3             \* cap on the members of one distribution
MaxReminderRows == 2        \* cap on the installment rows of the reminder check
MaxRuns == 3                \* cap on the invocations of the redelivered activities
MaxAmount == 120            \* largest amount given to the installment calculation

LoanVotingDays == 7
ApplicationVotingDays == 3
RejectPenalty == 5
InactivityDays == 30          \* days_inactive default of check_inactive_users
DecayAmount == 2              \* points one decay takes off
InstallmentSpacing == 30      \* days from scheduling to the first stored due date
ReminderWindowDays == 3       \* reminder_window of check_bnpl_installment_reminders

TerminalStatuses == {"Rejected", "Completed", "Defaulted", "Liquidated"}

Ret(op, id, err) ==
    [op |-> op, id |-> id, err |-> err, at |-> now, period |-> 0, yes |-> 0,
     no |-> 0, total |-> 0, approved |-> FALSE, row |-> 0, id2 |-> "",
     on_time |-> FALSE]

Max(a, b) == IF a >= b THEN a ELSE b

\* A PaymentRequest row; payer_exists / recipient_exists: the User rows of
\* payer_id and recipient_id are there
PaymentRequest(status, expires_at, payer_exists, recipient_exists) ==
    [status |-> status, expires_at |-> expires_at,
     payer_exists |-> payer_exists, recipient_exists |-> recipient_exists]

\* No PaymentRequest row under this id
NoRequest == PaymentRequest("Absent", 0, FALSE, FALSE)

\* No calculation has run yet
NoCalc ==
    [amount_token |-> 0, installment_1 |-> 0, installment_2 |-> 0,
     installment_3 |-> 0, total |-> 0, err |-> "none"]

\* No distribution has run yet
NoDist ==
    [op |-> "none", total |-> 0, weights |-> <<>>, shares |-> <<>>,
     sent |-> <<>>, failed |-> {}, distributed |-> FALSE, note |-> "",
     sum_valid |-> "unchecked", err |-> "none"]

\* Nothing transferred to any member yet
NoPaid ==
    [k \in {"late_fees", "interest", "liquidation"} |->
        [i \in 1..MaxParties |-> 0]]

\* The cumulative transfers after a run that sent sent[i] to member i
AddSent(cum, sent) ==
    [i \in 1..Len(cum) |-> cum[i] + IF i <= Len(sent) THEN sent[i] ELSE 0]

----------------------------------------------------------------------------
(* LoanService and RepaymentScheduleService: lifecycle transitions *)

\* LoanService.approve_loan: Requested -> Approved, otherwise an error kind
LoanService_approve_loan(st) ==
    IF st = "Absent" THEN "NotFound"
    ELSE IF st # "Requested" THEN "InvalidState"
    ELSE "ok"

\* LoanService.disburse_loan: Approved -> Disbursed, otherwise an error kind
LoanService_disburse_loan(st) ==
    IF st = "Absent" THEN "NotFound"
    ELSE IF st # "Approved" THEN "InvalidState"
    ELSE "ok"

\* reject_loan that rejects whatever the current status is
LoanService_reject_loan_unguarded(st) ==
    IF st = "Absent" THEN "NotFound" ELSE "ok"

\* LoanService.reject_loan: Requested -> Rejected, otherwise an error kind
LoanService_reject_loan(st) ==
    IF st = "Absent" THEN "NotFound"
    ELSE IF st # "Requested" THEN "InvalidState"
    ELSE "ok"

\* The score update without the floor at 0
ApplyDelta_unfloored(score, delta) == score + delta

\* RiskProfile floor: score = max(0, score + delta)
ApplyDelta(score, delta) == Max(0, score + delta)

\* RepaymentScheduleService.create_repayment_schedule: one set per loan,
\* an existing schedule is returned instead of a second one being stored
CreateRepaymentSchedule(n) == IF n = 0 THEN 1 ELSE n

----------------------------------------------------------------------------
(* loan_activities.py *)

\* approve_loan_on_chain with the two calls swapped: the loan is marked
\* Approved before the contract call is submitted
approve_loan_on_chain_status_first(loan_id, outcome) ==
    /\ approvals[loan_id] < MaxApprovals
    /\ UNCHANGED <<transfers, riskScore, appStatus, voteVars, bnplVars, distVars, riskVars, now>>
    /\ IF loanStatus[loan_id] = "Absent"
       THEN /\ ret' = Ret("approve_loan_on_chain", loan_id, "NotFound")
            /\ UNCHANGED <<loanStatus, repaymentSchedules, approvals>>
       ELSE LET e == LoanService_approve_loan(loanStatus[loan_id]) IN
            IF e # "ok"
            THEN /\ ret' = Ret("approve_loan_on_chain", loan_id, e)
                 /\ UNCHANGED <<loanStatus, repaymentSchedules, approvals>>
            ELSE /\ loanStatus' = [loanStatus EXCEPT ![loan_id] = "Approved"]
                 /\ IF outcome = "contract_fails"
                    THEN /\ ret' = Ret("approve_loan_on_chain", loan_id,
                                       "ExternalFailure")
                         /\ UNCHANGED <<repaymentSchedules, approvals>>
                    ELSE /\ approvals' = [approvals EXCEPT ![loan_id] = @ + 1]
                         /\ IF outcome = "schedule_fails"
                            THEN /\ ret' = Ret("approve_loan_on_chain", loan_id,
                                               "ExternalFailure")
                                 /\ UNCHANGED repaymentSchedules
                            ELSE /\ repaymentSchedules' =
                                      [repaymentSchedules EXCEPT ![loan_id] =
                                          CreateRepaymentSchedule(@)]
                                 /\ ret' = Ret("approve_loan_on_chain", loan_id, "ok")

\* approve_loan_on_chain: get_loan, call_contract("approve_loan"),
\* LoanService.approve_loan, create_repayment_schedule(num_payments=12).
\* outcome: which of the external calls fails, if any.
approve_loan_on_chain(loan_id, outcome) ==
    /\ approvals[loan_id] < MaxApprovals
    /\ UNCHANGED <<transfers, riskScore, appStatus, voteVars, bnplVars, distVars, riskVars, now>>
    /\ IF loanStatus[loan_id] = "Absent"
       THEN /\ ret' = Ret("approve_loan_on_chain", loan_id, "NotFound")
            /\ UNCHANGED <<loanStatus, repaymentSchedules, approvals>>
       ELSE IF outcome = "contract_fails"
       THEN /\ ret' = Ret("approve_loan_on_chain", loan_id, "ExternalFailure")
            /\ UNCHANGED <<loanStatus, repaymentSchedules, approvals>>
       ELSE /\ approvals' = [approvals EXCEPT ![loan_id] = @ + 1]
            /\ LET e == LoanService_approve_loan(loanStatus[loan_id]) IN
               IF e # "ok"
               THEN /\ ret' = Ret("approve_loan_on_chain", loan_id, e)
                    /\ UNCHANGED <<loanStatus, repaymentSchedules>>
               ELSE /\ loanStatus' = [loanStatus EXCEPT ![loan_id] = "Approved"]
                    /\ IF outcome = "schedule_fails"
                       THEN /\ ret' = Ret("approve_loan_on_chain", loan_id,
                                          "ExternalFailure")
                            /\ UNCHANGED repaymentSchedules
                       ELSE /\ repaymentSchedules' =
                                 [repaymentSchedules EXCEPT ![loan_id] =
                                     CreateRepaymentSchedule(@)]
                            /\ ret' = Ret("approve_loan_on_chain", loan_id, "ok")

\* disburse_funds with the two calls swapped: the loan is marked Disbursed
\* before the transfer is submitted
disburse_funds_status_first(loan_id, outcome) ==
    /\ transfers[loan_id] < MaxTransfers
    /\ UNCHANGED <<repaymentSchedules, approvals, riskScore, appStatus,
                   voteVars, bnplVars, distVars, riskVars, now>>
    /\ LET e == LoanService_disburse_loan(loanStatus[loan_id]) IN
       IF e # "ok"
       THEN /\ ret' = Ret("disburse_funds", loan_id, e)
            /\ UNCHANGED <<loanStatus, transfers>>
       ELSE /\ loanStatus' = [loanStatus EXCEPT ![loan_id] = "Disbursed"]
            /\ IF outcome = "transfer_fails"
               THEN /\ ret' = Ret("disburse_funds", loan_id, "ExternalFailure")
                    /\ UNCHANGED transfers
               ELSE /\ transfers' = [transfers EXCEPT ![loan_id] = @ + 1]
                    /\ ret' = Ret("disburse_funds", loan_id, "ok")

\* disburse_funds: transfer_funds first, then LoanService.disburse_loan.
disburse_funds(loan_id, outcome) ==
    /\ transfers[loan_id] < MaxTransfers
    /\ UNCHANGED <<repaymentSchedules, approvals, riskScore, appStatus,
                   voteVars, bnplVars, distVars, riskVars, now>>
    /\ IF outcome = "transfer_fails"
       THEN /\ ret' = Ret("disburse_funds", loan_id, "ExternalFailure")
            /\ UNCHANGED <<loanStatus, transfers>>
       ELSE /\ transfers' = [transfers EXCEPT ![loan_id] = @ + 1]
            /\ LET e == LoanService_disburse_loan(loanStatus[loan_id]) IN
               IF e # "ok"
               THEN /\ ret' = Ret("disburse_funds", loan_id, e)
                    /\ UNCHANGED loanStatus
               ELSE IF outcome = "update_fails"
               THEN /\ ret' = Ret("disburse_funds", loan_id, "ExternalFailure")
                    /\ UNCHANGED loanStatus
               ELSE /\ loanStatus' = [loanStatus EXCEPT ![loan_id] = "Disbursed"]
                    /\ ret' = Ret("disburse_funds", loan_id, "ok")

\* reject_loan_and_update_risk that rejects the loan and leaves the score
reject_loan_and_update_risk_no_penalty(loan_id, borrower_id) ==
    /\ UNCHANGED <<repaymentSchedules, transfers, approvals, appStatus, riskScore,
                   voteVars, bnplVars, distVars, riskVars, now>>
    /\ LET e == LoanService_reject_loan(loanStatus[loan_id]) IN
       IF e # "ok"
       THEN /\ ret' = [Ret("reject_loan_and_update_risk", loan_id, e) EXCEPT
                         !.id2 = borrower_id]
            /\ UNCHANGED loanStatus
       ELSE /\ loanStatus' = [loanStatus EXCEPT ![loan_id] = "Rejected"]
            /\ ret' = [Ret("reject_loan_and_update_risk", loan_id, "ok") EXCEPT
                         !.id2 = borrower_id]

\* reject_loan_and_update_risk that charges the penalty whatever the service
\* answers
reject_loan_and_update_risk_always_penalty(loan_id, borrower_id) ==
    /\ UNCHANGED <<repaymentSchedules, transfers, approvals, appStatus,
                   voteVars, bnplVars, distVars, riskVars, now>>
    /\ riskScore' = [riskScore EXCEPT ![borrower_id] =
                        ApplyDelta(@, 0 - RejectPenalty)]
    /\ LET e == LoanService_reject_loan(loanStatus[loan_id]) IN
       IF e # "ok"
       THEN /\ ret' = [Ret("reject_loan_and_update_risk", loan_id, e) EXCEPT
                         !.id2 = borrower_id]
            /\ UNCHANGED loanStatus
       ELSE /\ loanStatus' = [loanStatus EXCEPT ![loan_id] = "Rejected"]
            /\ ret' = [Ret("reject_loan_and_update_risk", loan_id, "ok") EXCEPT
                         !.id2 = borrower_id]

\* reject_loan_and_update_risk: LoanService.reject_loan rejects the loan and
\* applies the borrower's penalty in the same call.
reject_loan_and_update_risk(loan_id, borrower_id) ==
    /\ UNCHANGED <<repaymentSchedules, transfers, approvals, appStatus,
                   voteVars, bnplVars, distVars, riskVars, now>>
    /\ LET e == LoanService_reject_loan(loanStatus[loan_id]) IN
       IF e # "ok"
       THEN /\ ret' = [Ret("reject_loan_and_update_risk", loan_id, e) EXCEPT
                         !.id2 = borrower_id]
            /\ UNCHANGED <<loanStatus, riskScore>>
       ELSE /\ loanStatus' = [loanStatus EXCEPT ![loan_id] = "Rejected"]
            /\ riskScore' = [riskScore EXCEPT ![borrower_id] =
                                ApplyDelta(@, 0 - RejectPenalty)]
            /\ ret' = [Ret("reject_loan_and_update_risk", loan_id, "ok") EXCEPT
                         !.id2 = borrower_id]

----------------------------------------------------------------------------
(* bnpl_access_activities.py: application lifecycle *)

\* BNPLAccessService.approve_application / reject_application:
\* Pending -> Approved | Rejected, otherwise an error kind
BNPLAccessService_finalize(st) ==
    IF st = "Absent" THEN "NotFound"
    ELSE IF st # "Pending" THEN "InvalidState"
    ELSE "ok"

\* create_bnpl_applications: apply_for_bnpl_access stores a Pending application
create_bnpl_applications(application_id) ==
    /\ appStatus[application_id] = "Absent"
    /\ application_id = "A1"
    /\ appStatus' = [appStatus EXCEPT ![application_id] = "Pending"]
    /\ ret' = Ret("create_bnpl_applications", application_id, "ok")
    /\ UNCHANGED <<loanStatus, repaymentSchedules, transfers, approvals, riskScore,
                   voteVars, bnplVars, distVars, riskVars, now>>

\* finalize_application_status: approve_application or reject_application
finalize_application_status(application_id, approved) ==
    /\ UNCHANGED <<loanStatus, repaymentSchedules, transfers, approvals, riskScore,
                   voteVars, bnplVars, distVars, riskVars, now>>
    /\ LET e == BNPLAccessService_finalize(appStatus[application_id]) IN
       IF e # "ok"
       THEN /\ ret' = Ret("finalize_application_status", application_id, e)
            /\ UNCHANGED appStatus
       ELSE /\ appStatus' = [appStatus EXCEPT ![application_id] =
                                IF approved THEN "Approved" ELSE "Rejected"]
            /\ ret' = Ret("finalize_application_status", application_id, "ok")

----------------------------------------------------------------------------
(* Lifecycle transitions driven from outside the activities *)

\* Repaying -> Completed | Defaulted: all installments Paid, or the default policy
close_loan(loan_id, status) ==
    /\ loanStatus[loan_id] = "Disbursed"
    /\ loanStatus' = [loanStatus EXCEPT ![loan_id] = status]
    /\ ret' = Ret("close_loan", loan_id, "ok")
    /\ UNCHANGED <<repaymentSchedules, transfers, approvals, riskScore, appStatus,
                   voteVars, bnplVars, distVars, riskVars, now>>

\* * -> Liquidated: only from a non-terminal state
liquidate_loan(loan_id) ==
    /\ loanStatus[loan_id] \notin TerminalStatuses \cup {"Absent"}
    /\ loanStatus' = [loanStatus EXCEPT ![loan_id] = "Liquidated"]
    /\ ret' = Ret("liquidate_loan", loan_id, "ok")
    /\ UNCHANGED <<repaymentSchedules, transfers, approvals, riskScore, appStatus,
                   voteVars, bnplVars, distVars, riskVars, now>>

----------------------------------------------------------------------------
(* Governance voting: voting periods, ballots and the two tallies *)

\* proposal_id of open_voting: str(uuid.uuid4()), fresh on every call
UuidProposal(n) == [kind |-> "uuid", key |-> "", n |-> n]

\* proposal_id of open_voting_for_application: f"bnpl_access_{application_id}"
BnplProposal(application_id) == [kind |-> "bnpl_access", key |-> application_id, n |-> 0]

UnknownProposal == [kind |-> "uuid", key |-> "", n |-> 0]

\* A VotingPeriod row; subject records what the period was opened for
NewVotingPeriod(dao_id, proposal_id, subject, duration_days) ==
    [dao |-> dao_id, proposal_id |-> proposal_id, subject |-> subject,
     status |-> "Active", started_at |-> now,
     expires_at |-> now + duration_days, yes_votes |-> 0, no_votes |-> 0]

\* open_voting: a fresh proposal id, VotingPeriodService.create_voting_period
\* with duration_days=7; loan_id is only logged.
open_voting(dao_id, loan_id) ==
    /\ Len(votingPeriods) < MaxPeriods
    /\ LET proposal_id == UuidProposal(Len(votingPeriods) + 1) IN
       /\ votingPeriods' = Append(votingPeriods,
              NewVotingPeriod(dao_id, proposal_id, loan_id, LoanVotingDays))
       /\ ret' = [Ret("open_voting", loan_id, "ok") EXCEPT
                     !.period = Len(votingPeriods) + 1]
    /\ UNCHANGED <<loanVars, votingRecords, bnplVars, distVars, riskVars, now>>

\* open_voting_for_application that takes the loan proposals' window
open_voting_for_application_loan_window(application_id, dao_id) ==
    /\ Len(votingPeriods) < MaxPeriods
    /\ IF dao_id \notin DaoIds
       THEN /\ ret' = Ret("open_voting_for_application", application_id, "NotFound")
            /\ UNCHANGED votingPeriods
       ELSE /\ votingPeriods' = Append(votingPeriods,
                   NewVotingPeriod(dao_id, BnplProposal(application_id),
                                   application_id, LoanVotingDays))
            /\ ret' = [Ret("open_voting_for_application", application_id, "ok")
                          EXCEPT !.period = Len(votingPeriods) + 1]
    /\ UNCHANGED <<loanVars, votingRecords, bnplVars, distVars, riskVars, now>>

\* open_voting_for_application: DAO lookup, then a VotingPeriod row with
\* status Active and a 3-day window is added and committed.
open_voting_for_application(application_id, dao_id) ==
    /\ Len(votingPeriods) < MaxPeriods
    /\ IF dao_id \notin DaoIds
       THEN /\ ret' = Ret("open_voting_for_application", application_id, "NotFound")
            /\ UNCHANGED votingPeriods
       ELSE /\ votingPeriods' = Append(votingPeriods,
                   NewVotingPeriod(dao_id, BnplProposal(application_id),
                                   application_id, ApplicationVotingDays))
            /\ ret' = [Ret("open_voting_for_application", application_id, "ok")
                          EXCEPT !.period = Len(votingPeriods) + 1]
    /\ UNCHANGED <<loanVars, votingRecords, bnplVars, distVars, riskVars, now>>

\* A member casts a ballot on an Active period: one VotingRecord row per
\* (proposal, voter), and the period's yes_votes / no_votes counter.
cast_vote(i, voter, vote) ==
    /\ i \in 1..Len(votingPeriods)
    /\ votingPeriods[i].status = "Active"
    /\ now <= votingPeriods[i].expires_at
    /\ \A r \in votingRecords :
          ~(r.dao = votingPeriods[i].dao
            /\ r.proposal_id = votingPeriods[i].proposal_id /\ r.voter = voter)
    /\ votingRecords' = votingRecords \cup
          {[dao |-> votingPeriods[i].dao,
            proposal_id |-> votingPeriods[i].proposal_id,
            voter |-> voter, vote |-> vote]}
    /\ votingPeriods' = [votingPeriods EXCEPT
          ![i].yes_votes = IF vote THEN @ + 1 ELSE @,
          ![i].no_votes = IF vote THEN @ ELSE @ + 1]
    /\ ret' = [Ret("cast_vote", "", "ok") EXCEPT !.period = i]
    /\ UNCHANGED <<loanVars, bnplVars, distVars, riskVars, now>>

\* Python true division a / b, kept as the exact quotient (the double is
\* exact or within 2^-53 relative error, far below the 1 / (2 * total) gap
\* that separates two distinct outcomes for any 32-bit count)
TrueDiv(a, b) == [num |-> a, den |-> b]
RatTimes(q, k) == [num |-> q.num * k, den |-> q.den]
IntGtRat(x, q) == x * q.den > q.num
IntGeRat(x, q) == x * q.den >= q.num
RatGtInt(q, k) == q.num > k * q.den

\* the decision with >= in place of >
Supermajority_ge(yes_votes, total_votes) ==
    IF total_votes > 0
    THEN IntGeRat(yes_votes, TrueDiv(total_votes, 2))
    ELSE FALSE

\* count_votes: yes_votes > total_votes / 2 if total_votes > 0 else False
Supermajority(yes_votes, total_votes) ==
    IF total_votes > 0 THEN IntGtRat(yes_votes, TrueDiv(total_votes, 2)) ELSE FALSE

\* the decision with a yes share of exactly 50 percent approving
ApplicationApproved_half_approves(yes_votes, total_votes) ==
    IF total_votes > 0
    THEN ~RatGtInt(RatTimes(TrueDiv(total_votes - yes_votes, total_votes), 100), 50)
    ELSE FALSE

\* the decision with approved initialised to True instead of False
ApplicationApproved_default_true(yes_votes, total_votes) ==
    IF total_votes > 0
    THEN RatGtInt(RatTimes(TrueDiv(yes_votes, total_votes), 100), 50)
    ELSE TRUE

\* count_application_votes: (yes / total) * 100 > 50, False when total is 0
ApplicationApproved(yes_votes, total_votes) ==
    IF total_votes > 0
    THEN RatGtInt(RatTimes(TrueDiv(yes_votes, total_votes), 100), 50)
    ELSE FALSE

\* db.query(VotingRecord).filter(dao_id, proposal_id, vote).count()
CountRecords(dao_id, proposal_id, vote) ==
    Cardinality({r \in votingRecords :
        r.dao = dao_id /\ r.proposal_id = proposal_id /\ r.vote = vote})

\* VotingPeriodService.get_voting_period_by_proposal: index of the first row, or 0
PeriodByProposal(dao_id, proposal_id) ==
    LET hits == {i \in 1..Len(votingPeriods) :
                    votingPeriods[i].dao = dao_id
                    /\ votingPeriods[i].proposal_id = proposal_id}
    IN IF hits = {} THEN 0 ELSE CHOOSE i \in hits : \A j \in hits : i <= j

\* count_votes that refuses to approve once the voting window has passed
CountVotesResult_window(i, dao_id, proposal_id) ==
    LET yes_votes == CountRecords(dao_id, proposal_id, TRUE)
        no_votes == CountRecords(dao_id, proposal_id, FALSE)
        total_votes == yes_votes + no_votes
    IN [op |-> "count_votes", id |-> "", err |-> "ok", at |-> now, period |-> i,
        yes |-> yes_votes, no |-> no_votes, total |-> total_votes,
        approved |-> /\ now <= votingPeriods[i].expires_at
                     /\ Supermajority(yes_votes, total_votes),
        row |-> 0, id2 |-> "", on_time |-> FALSE]

\* The dict count_votes returns
CountVotesResult(i, dao_id, proposal_id) ==
    LET yes_votes == CountRecords(dao_id, proposal_id, TRUE)
        no_votes == CountRecords(dao_id, proposal_id, FALSE)
        total_votes == yes_votes + no_votes
    IN [op |-> "count_votes", id |-> "", err |-> "ok", at |-> now, period |-> i,
        yes |-> yes_votes, no |-> no_votes, total |-> total_votes,
        approved |-> Supermajority(yes_votes, total_votes), row |-> 0,
        id2 |-> "", on_time |-> FALSE]

\* count_votes: period lookup, two row counts, the decision; nothing is written
count_votes(dao_id, proposal_id) ==
    /\ LET i == PeriodByProposal(dao_id, proposal_id) IN
       ret' = IF i = 0 THEN Ret("count_votes", "", "NotFound")
              ELSE CountVotesResult(i, dao_id, proposal_id)
    /\ UNCHANGED <<loanVars, votingPeriods, votingRecords, bnplVars, distVars, riskVars, now>>

\* The dict count_application_votes returns
CountApplicationVotesResult(i) ==
    LET yes_votes == votingPeriods[i].yes_votes
        no_votes == votingPeriods[i].no_votes
        total_votes == yes_votes + no_votes
    IN [op |-> "count_application_votes", id |-> "", err |-> "ok", at |-> now,
        period |-> i,
        yes |-> yes_votes, no |-> no_votes, total |-> total_votes,
        approved |-> ApplicationApproved(yes_votes, total_votes), row |-> 0,
        id2 |-> "", on_time |-> FALSE]

\* count_application_votes: period lookup by id, the counters, the decision
count_application_votes(voting_period_id) ==
    /\ ret' = IF voting_period_id \notin 1..Len(votingPeriods)
              THEN Ret("count_application_votes", "", "NotFound")
              ELSE CountApplicationVotesResult(voting_period_id)
    /\ UNCHANGED <<loanVars, votingPeriods, votingRecords, bnplVars, distVars, riskVars, now>>

\* The clock advances by some days
Tick(days) ==
    /\ now + days <= MaxTime
    /\ now' = now + days
    /\ UNCHANGED <<loanVars, voteVars, bnplVars, distVars, riskVars, ret>>

----------------------------------------------------------------------------
(* Initial values of the parts a specification does not exercise *)

InitLoans ==
    /\ loanStatus = [l \in LoanIds |-> IF l = "L1" THEN "Requested" ELSE "Absent"]
    /\ repaymentSchedules = [l \in LoanIds |-> 0]
    /\ transfers = [l \in LoanIds |-> 0]
    /\ approvals = [l \in LoanIds |-> 0]
    /\ appStatus = [a \in AppIds |-> "Absent"]

InitVotes ==
    /\ votingPeriods = <<>>
    /\ votingRecords = {}
    /\ lastTally = <<>>
    /\ reTallies = 0

InitBnpl ==
    /\ bnplPayments = <<>>
    /\ calc = NoCalc
    /\ paymentRequests = [r \in RequestIds |-> PaymentRequest("Created", MaxDay, TRUE, TRUE)]

InitLedger ==
    /\ paid = NoPaid
    /\ dao = [d \in DaoIds |-> [status |-> "Active", dissolve_calls |-> 0]]
    /\ invocations = 0

InitDist == dist = NoDist /\ InitLedger

InitRisk == lastActivity = [u \in UserIds |-> 0] /\ inactiveUsers = {}

----------------------------------------------------------------------------
(* Specification of the loan and application lifecycle *)

Init ==
    /\ InitLoans
    /\ riskScore \in [UserIds -> {0, MaxScore}]
    /\ InitVotes
    /\ InitBnpl
    /\ InitDist
    /\ InitRisk
    /\ now = 0
    /\ ret = [Ret("init", "", "ok") EXCEPT !.at = 0]

Next ==
    \/ \E l \in LoanIds, o \in {"ok", "contract_fails", "schedule_fails"} :
          approve_loan_on_chain(l, o)
    \/ \E l \in LoanIds, o \in {"ok", "transfer_fails", "update_fails"} :
          disburse_funds(l, o)
    \/ \E l \in LoanIds, u \in UserIds : reject_loan_and_update_risk(l, u)
    \/ \E a \in AppIds : create_bnpl_applications(a)
    \/ \E a \in AppIds, b \in BOOLEAN : finalize_application_status(a, b)
    \/ \E l \in LoanIds, s \in {"Completed", "Defaulted"} : close_loan(l, s)
    \/ \E l \in LoanIds : liquidate_loan(l)

Spec == Init /\ [][Next]_vars

----------------------------------------------------------------------------
(* BNPL installment records *)

\* calculate_bnpl_installments with the remainder dropped
calculate_bnpl_installments_no_remainder(amount_token) ==
    LET installment_amount == amount_token \div 3
        total == installment_amount + installment_amount + installment_amount
    IN [amount_token |-> amount_token,
        installment_1 |-> installment_amount,
        installment_2 |-> installment_amount,
        installment_3 |-> installment_amount,
        total |-> total,
        err |-> IF total # amount_token THEN "ValidationFailure" ELSE "ok"]

\* calculate_bnpl_installments with the remainder on the last installment
calculate_bnpl_installments_remainder_last(amount_token) ==
    LET installment_amount == amount_token \div 3
        remainder == amount_token % 3
        total == installment_amount + installment_amount
                 + (installment_amount + remainder)
    IN [amount_token |-> amount_token,
        installment_1 |-> installment_amount,
        installment_2 |-> installment_amount,
        installment_3 |-> installment_amount + remainder,
        total |-> total,
        err |-> IF total # amount_token THEN "ValidationFailure" ELSE "ok"]

\* calculate_bnpl_installments: thirds, the remainder goes to installment 1;
\* err is the ValueError raised when the parts do not add up to the amount.
calculate_bnpl_installments(amount_token) ==
    LET installment_amount == amount_token \div 3
        remainder == amount_token % 3
        installment_1 == installment_amount + remainder
        installment_2 == installment_amount
        installment_3 == installment_amount
        total == installment_1 + installment_2 + installment_3
    IN [amount_token |-> amount_token,
        installment_1 |-> installment_1,
        installment_2 |-> installment_2,
        installment_3 |-> installment_3,
        total |-> total,
        err |-> IF total # amount_token THEN "ValidationFailure" ELSE "ok"]

\* The activity run: the dict it returns (or the error it raises) is kept
CalculateInstallments(amount_token) ==
    /\ calc' = calculate_bnpl_installments(amount_token)
    /\ ret' = Ret("calculate_bnpl_installments", "", calc'.err)
    /\ UNCHANGED <<loanVars, voteVars, bnplPayments, paymentRequests, distVars, riskVars, now>>

\* paid_date of a row on which no payment is recorded (None)
NoDate == -1

\* A BNPLPayment row
BNPLPayment(payment_request_id, installment_number, amount, due_date, status, paid_date) ==
    [payment_request_id |-> payment_request_id,
     installment_number |-> installment_number, amount |-> amount,
     due_date |-> due_date, status |-> status, late_fee |-> 0,
     paid_date |-> paid_date]

\* schedule_bnpl_installments that adds the row of installment 2 only
schedule_bnpl_installments_one_row(payment_request_id, installment_2, installment_3, outcome) ==
    /\ Len(bnplPayments) + 2 <= MaxPayments
    /\ bnplPayments' = Append(bnplPayments,
           BNPLPayment(payment_request_id, 2, installment_2, now + 30, "Pending",
                       NoDate))
    /\ ret' = Ret("schedule_bnpl_installments", payment_request_id, "ok")
    /\ UNCHANGED <<loanVars, voteVars, calc, paymentRequests, distVars, riskVars, now>>

\* schedule_bnpl_installments: rows for installments 2 and 3, due in 30 and
\* 60 days from now, added and committed together.
schedule_bnpl_installments(payment_request_id, installment_2, installment_3, outcome) ==
    /\ Len(bnplPayments) + 2 <= MaxPayments
    /\ IF outcome = "commit_fails"
       THEN /\ ret' = Ret("schedule_bnpl_installments", payment_request_id,
                          "ExternalFailure")
            /\ UNCHANGED bnplPayments
       ELSE /\ bnplPayments' = bnplPayments \o
                  <<BNPLPayment(payment_request_id, 2, installment_2, now + 30,
                                "Pending", NoDate),
                    BNPLPayment(payment_request_id, 3, installment_3, now + 60,
                                "Pending", NoDate)>>
            /\ ret' = Ret("schedule_bnpl_installments", payment_request_id, "ok")
    /\ UNCHANGED <<loanVars, voteVars, calc, paymentRequests, distVars, riskVars, now>>

\* store_x402_installment: one row, Paid when a transaction hash is given
store_x402_installment(payment_request_id, installment_number, amount_token, due_date, has_hash, outcome) ==
    /\ Len(bnplPayments) < MaxPayments
    /\ IF outcome = "commit_fails"
       THEN /\ ret' = Ret("store_x402_installment", payment_request_id,
                          "ExternalFailure")
            /\ UNCHANGED bnplPayments
       ELSE /\ bnplPayments' = Append(bnplPayments,
                  BNPLPayment(payment_request_id, installment_number, amount_token,
                              due_date, IF has_hash THEN "Paid" ELSE "Pending",
                              IF has_hash THEN now ELSE NoDate))
            /\ ret' = Ret("store_x402_installment", payment_request_id, "ok")
    /\ UNCHANGED <<loanVars, voteVars, calc, paymentRequests, distVars, riskVars, now>>

\* sum(p.amount) over a sequence of BNPLPayment rows
RECURSIVE SumAmounts(_)
SumAmounts(rows) ==
    IF rows = <<>> THEN 0 ELSE Head(rows).amount + SumAmounts(Tail(rows))

\* int(payment.amount * 0.05).  The double product truncates to the exact
\* floor of amount * 5 / 100 for every amount TLC can represent: 0.05 as a
\* double lies just above 1/20 and the rounding error of the product stays
\* far below the 1/20 that separates a multiple of 1/20 from the next integer.
LateFee(amount) == (amount * 5) \div 100

\* apply_bnpl_late_fee's test with the status left out
IsOverdue_any_status(payment) == payment.due_date < now

\* apply_bnpl_late_fee's test with the due date itself counted as overdue
IsOverdue_inclusive(payment) ==
    payment.status = "Pending" /\ payment.due_date <= now

\* The overdue test of apply_bnpl_late_fee
IsOverdue(payment) == payment.status = "Pending" /\ payment.due_date < now

\* The overdue test of track_bnpl_payment_status
IsOverdueUnpaid(payment) ==
    /\ payment.status = "Pending"
    /\ payment.due_date < now
    /\ payment.paid_date = NoDate

\* The row marked late with no fee stored
MarkLate_no_fee(payment) == [payment EXCEPT !.status = "Late"]

\* The row once it is marked late
MarkLate(payment) ==
    [payment EXCEPT !.status = "Late", !.late_fee = LateFee(payment.amount)]

\* apply_bnpl_late_fee: ret.approved is the late_fee_applied flag
apply_bnpl_late_fee(bnpl_payment_id, outcome) ==
    /\ IF bnpl_payment_id \notin 1..Len(bnplPayments)
       THEN /\ ret' = Ret("apply_bnpl_late_fee", "", "NotFound")
            /\ UNCHANGED bnplPayments
       ELSE LET payment == bnplPayments[bnpl_payment_id] IN
            IF IsOverdue(payment)
            THEN IF outcome = "commit_fails"
                 THEN /\ ret' = [Ret("apply_bnpl_late_fee", "", "ExternalFailure")
                                   EXCEPT !.row = bnpl_payment_id]
                      /\ UNCHANGED bnplPayments
                 ELSE /\ bnplPayments' = [bnplPayments EXCEPT
                                             ![bnpl_payment_id] = MarkLate(payment)]
                      /\ ret' = [Ret("apply_bnpl_late_fee", "", "ok") EXCEPT
                                   !.row = bnpl_payment_id, !.approved = TRUE]
            ELSE /\ ret' = [Ret("apply_bnpl_late_fee", "", "ok") EXCEPT
                              !.row = bnpl_payment_id]
                 /\ UNCHANGED bnplPayments
    /\ UNCHANGED <<loanVars, voteVars, calc, paymentRequests, distVars, riskVars, now>>

\* track_bnpl_payment_status: marks the row late if overdue, then commits
track_bnpl_payment_status(bnpl_payment_id, outcome) ==
    /\ IF bnpl_payment_id \notin 1..Len(bnplPayments)
       THEN /\ ret' = Ret("track_bnpl_payment_status", "", "NotFound")
            /\ UNCHANGED bnplPayments
       ELSE LET payment == bnplPayments[bnpl_payment_id] IN
            IF outcome = "commit_fails"
            THEN /\ ret' = [Ret("track_bnpl_payment_status", "", "ExternalFailure")
                              EXCEPT !.row = bnpl_payment_id]
                 /\ UNCHANGED bnplPayments
            ELSE /\ bnplPayments' =
                       IF IsOverdueUnpaid(payment)
                       THEN [bnplPayments EXCEPT ![bnpl_payment_id] = MarkLate(payment)]
                       ELSE bnplPayments
                 /\ ret' = [Ret("track_bnpl_payment_status", "", "ok") EXCEPT
                              !.row = bnpl_payment_id]
    /\ UNCHANGED <<loanVars, voteVars, calc, paymentRequests, distVars, riskVars, now>>

\* Days pass between two activities of the installment records
PassDays(days) ==
    /\ now + days <= MaxDay
    /\ now' = now + days
    /\ UNCHANGED <<loanVars, voteVars, bnplVars, distVars, riskVars, ret>>

\* The filter of check_bnpl_installment_reminders with no lower end: overdue
\* Pending rows are reminded too
ReminderDue_overdue_too(payment) ==
    payment.status = "Pending" /\ payment.due_date <= now + ReminderWindowDays

\* The filter of check_bnpl_installment_reminders: Pending and due within the
\* next 3 days
ReminderDue(payment) ==
    /\ payment.status = "Pending"
    /\ payment.due_date >= now
    /\ payment.due_date <= now + ReminderWindowDays

\* check_bnpl_installment_reminders: one reminder per upcoming row whose
\* payment request and payer are found; nothing is written.
check_bnpl_installment_reminders ==
    /\ LET upcoming_payments == {i \in 1..Len(bnplPayments) :
                                   ReminderDue(bnplPayments[i])}
           reminded == {i \in upcoming_payments :
                          LET payment_request ==
                                 paymentRequests[bnplPayments[i].payment_request_id]
                          IN /\ payment_request.status # "Absent"
                             /\ payment_request.payer_exists}
       IN ret' = [Ret("check_bnpl_installment_reminders", "", "ok") EXCEPT
                    !.total = Cardinality(reminded)]
    /\ UNCHANGED <<loanVars, voteVars, bnplVars, distVars, riskVars, now>>

----------------------------------------------------------------------------
(* payment_activities.py and bnpl_activities.py: payment requests *)

\* PaymentRequestService.check_payment_request_expired
check_payment_request_expired(payment_request) == now > payment_request.expires_at

\* The validation with the status check left out
ValidationError_no_status_check(payment_request) ==
    IF payment_request.status = "Absent" THEN "NotFound"
    ELSE IF check_payment_request_expired(payment_request) THEN "InvalidState"
    ELSE IF ~payment_request.payer_exists THEN "NotFound"
    ELSE IF ~payment_request.recipient_exists THEN "NotFound"
    ELSE "ok"

\* The checks of validate_payment_request and validate_bnpl_payment_request,
\* in the code's order: exists, not expired, status Created, payer, recipient
ValidationError(payment_request) ==
    IF payment_request.status = "Absent" THEN "NotFound"
    ELSE IF check_payment_request_expired(payment_request) THEN "InvalidState"
    ELSE IF payment_request.status # "Created" THEN "InvalidState"
    ELSE IF ~payment_request.payer_exists THEN "NotFound"
    ELSE IF ~payment_request.recipient_exists THEN "NotFound"
    ELSE "ok"

validate_payment_request(payment_request_id) ==
    /\ ret' = Ret("validate_payment_request", payment_request_id,
                  ValidationError(paymentRequests[payment_request_id]))
    /\ UNCHANGED <<loanVars, voteVars, bnplVars, distVars, riskVars, now>>

validate_bnpl_payment_request(payment_request_id) ==
    /\ ret' = Ret("validate_bnpl_payment_request", payment_request_id,
                  ValidationError(paymentRequests[payment_request_id]))
    /\ UNCHANGED <<loanVars, voteVars, bnplVars, distVars, riskVars, now>>

\* PaymentRequestService.mark_payment_request_completed: the row's status
\* becomes Completed; a missing row or a failed commit raises
MarkCompleted(op, payment_request_id, outcome) ==
    /\ IF paymentRequests[payment_request_id].status = "Absent"
       THEN /\ ret' = Ret(op, payment_request_id, "NotFound")
            /\ UNCHANGED paymentRequests
       ELSE IF outcome = "commit_fails"
       THEN /\ ret' = Ret(op, payment_request_id, "ExternalFailure")
            /\ UNCHANGED paymentRequests
       ELSE /\ paymentRequests' = [paymentRequests EXCEPT
                                     ![payment_request_id].status = "Completed"]
            /\ ret' = Ret(op, payment_request_id, "ok")
    /\ UNCHANGED <<loanVars, voteVars, bnplPayments, calc, distVars, riskVars, now>>

mark_payment_completed(payment_request_id, outcome) ==
    MarkCompleted("mark_payment_completed", payment_request_id, outcome)

mark_bnpl_payment_completed(payment_request_id, outcome) ==
    MarkCompleted("mark_bnpl_payment_completed", payment_request_id, outcome)

----------------------------------------------------------------------------
(* Proportional distribution: loan interest, liquidation funds, late fees *)

\* sum(...) over a list of integers
RECURSIVE SumSeq(_)
SumSeq(xs) == IF xs = <<>> THEN 0 ELSE Head(xs) + SumSeq(Tail(xs))

Zeros(n) == [i \in 1..n |-> 0]

\* floor(weight / sum * total): the share the distribution services compute
FloorShare(weight, sum, total) == (weight * total) \div sum

\* The inputs below on which the double expression
\* (voting_power / total_voting_power) * late_fee_amount evaluates to just
\* under the exact quotient, as <<voting_power, total_voting_power,
\* late_fee_amount>>: (1 / 49) * 49 = 0.9999999999999999,
\* (16 / 49) * 49 = 15.999999999999998, (32 / 49) * 49 = 31.999999999999996.
\* On every other input drawn from VotingPowers and LateFeeAmounts, with up to
\* MaxParties + 1 members, the double result truncates to the exact floor.
DoubleJustBelow == {<<1, 49, 49>>, <<16, 49, 49>>, <<32, 49, 49>>}

\* member_share rounded up instead of truncated
member_share_rounded_up(voting_power, total_voting_power, late_fee_amount) ==
    (voting_power * late_fee_amount + total_voting_power - 1)
        \div total_voting_power

\* int((voting_power / total_voting_power) * late_fee_amount)
member_share(voting_power, total_voting_power, late_fee_amount) ==
    IF <<voting_power, total_voting_power, late_fee_amount>> \in DoubleJustBelow
    THEN FloorShare(voting_power, total_voting_power, late_fee_amount) - 1
    ELSE FloorShare(voting_power, total_voting_power, late_fee_amount)

\* The run of distribute_bnpl_late_fees once get_members has answered:
\* members without voting power or with a zero share are skipped, a failed
\* transfer is logged and the loop goes on with the next member.
LateFeeDistribution(late_fee_amount, voting_powers, fails) ==
    LET n == Len(voting_powers)
        total_voting_power == SumSeq(voting_powers)
        base == [NoDist EXCEPT !.op = "distribute_bnpl_late_fees",
                               !.total = late_fee_amount,
                               !.weights = voting_powers,
                               !.shares = Zeros(n), !.sent = Zeros(n),
                               !.err = "ok"]
    IN IF n = 0 THEN [base EXCEPT !.note = "No members found"]
       ELSE IF total_voting_power = 0 THEN [base EXCEPT !.note = "No voting power"]
       ELSE LET shares == [i \in 1..n |->
                             IF voting_powers[i] = 0 THEN 0
                             ELSE member_share(voting_powers[i], total_voting_power,
                                               late_fee_amount)]
            IN [base EXCEPT
                  !.shares = shares,
                  !.sent = [i \in 1..n |-> IF i \in fails THEN 0 ELSE shares[i]],
                  !.failed = {i \in 1..n : i \in fails /\ shares[i] > 0},
                  !.distributed = TRUE]

\* distribute_bnpl_late_fees: get_members on the DAO contract, then the run
distribute_bnpl_late_fees(dao_id, late_fee_amount, voting_powers, fails, outcome) ==
    /\ dist' = IF outcome = "contract_fails"
               THEN [NoDist EXCEPT !.op = "distribute_bnpl_late_fees",
                                   !.total = late_fee_amount,
                                   !.weights = voting_powers,
                                   !.shares = Zeros(Len(voting_powers)),
                                   !.sent = Zeros(Len(voting_powers)),
                                   !.err = "ExternalFailure"]
               ELSE LateFeeDistribution(late_fee_amount, voting_powers, fails)
    /\ paid' = [paid EXCEPT !.late_fees = AddSent(@, dist'.sent)]
    /\ invocations' = invocations + 1
    /\ ret' = Ret("distribute_bnpl_late_fees", dao_id, dist'.err)
    /\ UNCHANGED <<loanVars, voteVars, bnplVars, dao, riskVars, now>>

\* The smallest member index in a non-empty set
First(S) == CHOOSE i \in S : \A j \in S : i <= j

\* The distribution that raises on zero investment even when nothing is to
\* be distributed
InvestmentDistribution_no_zero_total(op, total, member_investments, fails) ==
    [NoDist EXCEPT !.op = op, !.total = total, !.weights = member_investments,
                   !.shares = Zeros(Len(member_investments)),
                   !.sent = Zeros(Len(member_investments)),
                   !.err = IF SumSeq(member_investments) = 0
                           THEN "ValidationFailure" ELSE "ok"]

\* The run shared by distribute_loan_interest and distribute_liquidation_funds:
\* nothing to distribute returns empty, zero investment raises, then each
\* positive share is transferred in list order; a failed transfer raises and
\* ends the run with the earlier transfers made.
InvestmentDistribution(op, total, member_investments, fails) ==
    LET n == Len(member_investments)
        total_investment == SumSeq(member_investments)
        base == [NoDist EXCEPT !.op = op, !.total = total,
                               !.weights = member_investments,
                               !.shares = Zeros(n), !.sent = Zeros(n),
                               !.err = "ok"]
    IN IF total = 0 THEN base
       ELSE IF total_investment = 0 THEN [base EXCEPT !.err = "ValidationFailure"]
       ELSE LET shares == [i \in 1..n |->
                             FloorShare(member_investments[i], total_investment,
                                        total)]
                failing == {i \in 1..n : i \in fails /\ shares[i] > 0}
            IN IF failing = {}
               THEN [base EXCEPT !.shares = shares, !.sent = shares,
                                 !.distributed = TRUE]
               ELSE [base EXCEPT
                       !.shares = shares,
                       !.sent = [i \in 1..n |->
                                   IF i < First(failing) THEN shares[i] ELSE 0],
                       !.failed = {First(failing)},
                       !.err = "ExternalFailure"]

\* The run with a failed sum validation raising instead of being logged
ValidatedDistribution_raising(d, valid) ==
    IF ~d.distributed THEN d
    ELSE IF valid THEN [d EXCEPT !.sum_valid = "passed"]
    ELSE [d EXCEPT !.sum_valid = "failed", !.err = "ValidationFailure"]

\* validate_distribution_sum after the member loop: valid is the service's
\* answer; a failed check is logged as a warning and the run returns as it
\* would have.
ValidatedDistribution(d, valid) ==
    IF ~d.distributed THEN d
    ELSE [d EXCEPT !.sum_valid = IF valid THEN "passed" ELSE "failed"]

\* distribute_loan_interest; total_interest is what calculate_total_interest
\* returns for the loan
distribute_loan_interest(loan_id, dao_id, total_interest, member_investments, fails, valid) ==
    /\ dist' = ValidatedDistribution(
                   InvestmentDistribution("distribute_loan_interest", total_interest,
                                          member_investments, fails), valid)
    /\ paid' = [paid EXCEPT !.interest = AddSent(@, dist'.sent)]
    /\ invocations' = invocations + 1
    /\ ret' = Ret("distribute_loan_interest", loan_id, dist'.err)
    /\ UNCHANGED <<loanVars, voteVars, bnplVars, dao, riskVars, now>>

\* distribute_liquidation_funds; total_available_funds is what
\* calculate_total_available_funds returns for the DAO
distribute_liquidation_funds(dao_id, total_available_funds, member_investments, fails, valid) ==
    /\ dist' = ValidatedDistribution(
                   InvestmentDistribution("distribute_liquidation_funds",
                                          total_available_funds, member_investments,
                                          fails), valid)
    /\ paid' = [paid EXCEPT !.liquidation = AddSent(@, dist'.sent)]
    /\ invocations' = invocations + 1
    /\ ret' = Ret("distribute_liquidation_funds", dao_id, dist'.err)
    /\ UNCHANGED <<loanVars, voteVars, bnplVars, dao, riskVars, now>>

\* dissolve_dao_on_chain: the dissolve_dao contract call is submitted whatever
\* the DAO's state; an accepted call leaves the DAO dissolved.
dissolve_dao_on_chain(dao_id, outcome) ==
    /\ IF outcome = "contract_fails"
       THEN /\ ret' = Ret("dissolve_dao_on_chain", dao_id, "ExternalFailure")
            /\ UNCHANGED dao
       ELSE /\ dao' = [dao EXCEPT ![dao_id] =
                         [status |-> "Dissolved",
                          dissolve_calls |-> @.dissolve_calls + 1]]
            /\ ret' = Ret("dissolve_dao_on_chain", dao_id, "ok")
    /\ UNCHANGED <<loanVars, voteVars, bnplVars, dist, paid, invocations,
                   riskVars, now>>

----------------------------------------------------------------------------
(* Risk profile: score events and inactivity decay *)

\* RiskProfileService.record_transaction: +1
TransactionDelta == 1

\* RiskProfileService.record_bnpl_payment: +2 on time, -3 late
BnplDelta(on_time) == IF on_time THEN 2 ELSE 0 - 3

\* One score event of a user, floored at 0
RecordEvent(scores, user_id, delta) ==
    [scores EXCEPT ![user_id] = ApplyDelta(@, delta)]

\* The user has had no transaction for days_inactive days
IsInactive(user_id, days_inactive) == now - lastActivity[user_id] >= days_inactive

\* apply_decay of the service that takes the listed id at its word
RiskProfileService_apply_decay_stale(scores, user_id) ==
    RecordEvent(scores, user_id, 0 - DecayAmount)

\* RiskProfileService.apply_decay: -2 for a user who is inactive now
RiskProfileService_apply_decay(scores, user_id) ==
    IF IsInactive(user_id, InactivityDays)
    THEN RecordEvent(scores, user_id, 0 - DecayAmount)
    ELSE scores

\* update_risk_profiles that credits the payer only
update_risk_profiles_payer_only(payer_id, recipient_id, outcome) ==
    /\ riskScore' = RecordEvent(riskScore, payer_id, TransactionDelta)
    /\ lastActivity' = [lastActivity EXCEPT ![payer_id] = now]
    /\ ret' = [Ret("update_risk_profiles", payer_id, "ok") EXCEPT
                 !.id2 = recipient_id, !.approved = TRUE]
    /\ UNCHANGED <<lifecycleVars, voteVars, bnplVars, distVars, inactiveUsers, now>>

\* update_risk_profiles: record_transaction for the payer, then for the
\* recipient, each committed by the service as it is made; an exception from
\* either call is caught and reported as updated = False (ret.approved) with
\* an error field (ret.err = "SoftFailure").
update_risk_profiles(payer_id, recipient_id, outcome) ==
    /\ riskScore[payer_id] < MaxScore
    /\ riskScore[recipient_id] < MaxScore
    /\ LET payer_done == RecordEvent(riskScore, payer_id, TransactionDelta)
           payer_seen == [lastActivity EXCEPT ![payer_id] = now]
       IN CASE outcome = "payer_fails" ->
                 /\ UNCHANGED <<riskScore, lastActivity>>
                 /\ ret' = [Ret("update_risk_profiles", payer_id, "SoftFailure")
                              EXCEPT !.id2 = recipient_id]
            [] outcome = "recipient_fails" ->
                 /\ riskScore' = payer_done
                 /\ lastActivity' = payer_seen
                 /\ ret' = [Ret("update_risk_profiles", payer_id, "SoftFailure")
                              EXCEPT !.id2 = recipient_id]
            [] OTHER ->
                 /\ riskScore' = RecordEvent(payer_done, recipient_id,
                                             TransactionDelta)
                 /\ lastActivity' = [payer_seen EXCEPT ![recipient_id] = now]
                 /\ ret' = [Ret("update_risk_profiles", payer_id, "ok") EXCEPT
                              !.id2 = recipient_id, !.approved = TRUE]
    /\ UNCHANGED <<lifecycleVars, voteVars, bnplVars, distVars, inactiveUsers, now>>

\* update_bnpl_risk_profile that lets the service's exception through
update_bnpl_risk_profile_raising(payer_id, on_time, outcome) ==
    /\ ret' = [Ret("update_bnpl_risk_profile", payer_id, "ExternalFailure")
                 EXCEPT !.on_time = on_time]
    /\ UNCHANGED <<loanVars, voteVars, bnplVars, distVars, riskVars, now>>

\* update_bnpl_risk_profile: record_bnpl_payment for the payer; an exception
\* is caught and reported as updated = False with an error field.
update_bnpl_risk_profile(payer_id, on_time, outcome) ==
    /\ riskScore[payer_id] < MaxScore
    /\ IF outcome = "service_fails"
       THEN /\ UNCHANGED riskScore
            /\ ret' = [Ret("update_bnpl_risk_profile", payer_id, "SoftFailure")
                         EXCEPT !.on_time = on_time]
       ELSE /\ riskScore' = RecordEvent(riskScore, payer_id, BnplDelta(on_time))
            /\ ret' = [Ret("update_bnpl_risk_profile", payer_id, "ok") EXCEPT
                         !.on_time = on_time, !.approved = TRUE]
    /\ UNCHANGED <<lifecycleVars, voteVars, bnplVars, distVars, riskVars, now>>

\* check_inactive_users: the ids get_inactive_users finds; ret.total is the
\* length of the list
check_inactive_users(days_inactive) ==
    /\ inactiveUsers' = {u \in UserIds : IsInactive(u, days_inactive)}
    /\ ret' = [Ret("check_inactive_users", "", "ok") EXCEPT
                 !.total = Cardinality(inactiveUsers')]
    /\ UNCHANGED <<loanVars, voteVars, bnplVars, distVars, lastActivity, now>>

\* The scores after service.apply_decay has run for every listed user
RECURSIVE DecayAll(_, _)
DecayAll(scores, user_ids) ==
    IF user_ids = {} THEN scores
    ELSE LET u == CHOOSE x \in user_ids : TRUE
         IN DecayAll(RiskProfileService_apply_decay(scores, u), user_ids \ {u})

\* apply_decay: service.apply_decay for every listed user; ret.total is
\* users_affected and ret.yes is total_decay_points, both counted per listed
\* user.
apply_decay(user_ids, outcome) ==
    /\ IF outcome = "service_fails"
       THEN /\ UNCHANGED riskScore
            /\ ret' = Ret("apply_decay", "", "ExternalFailure")
       ELSE /\ riskScore' = DecayAll(riskScore, user_ids)
            /\ ret' = [Ret("apply_decay", "", "ok") EXCEPT
                         !.total = Cardinality(user_ids),
                         !.yes = DecayAmount * Cardinality(user_ids),
                         !.approved = TRUE]
    /\ UNCHANGED <<lifecycleVars, voteVars, bnplVars, distVars, riskVars, now>>

----------------------------------------------------------------------------
(* Specification of opening voting periods, casting ballots and tallying *)

TallyOps == {"count_votes", "count_application_votes"}

NoTally == [Ret("none", "", "ok") EXCEPT !.at = 0]

ProposalInputs ==
    {votingPeriods[i].proposal_id : i \in 1..Len(votingPeriods)} \cup {UnknownProposal}

InitVote ==
    /\ InitLoans
    /\ riskScore = [u \in UserIds |-> 0]
    /\ InitVotes
    /\ InitBnpl
    /\ InitDist
    /\ InitRisk
    /\ now \in 0..MaxTime
    /\ ret = [Ret("init", "", "ok") EXCEPT !.at = 0]

NextVote ==
    \/ \E d \in DaoIds, l \in LoanIds :
          open_voting(d, l) /\ UNCHANGED <<lastTally, reTallies>>
    \/ \E a \in AppIds, d \in DaoIds \cup {UnknownDao} :
          open_voting_for_application(a, d) /\ UNCHANGED <<lastTally, reTallies>>
    \/ \E i \in 1..MaxPeriods, v \in VoterIds, b \in BOOLEAN :
          cast_vote(i, v, b) /\ UNCHANGED <<lastTally, reTallies>>
    \/ \E d \in DaoIds \cup {UnknownDao}, p \in ProposalInputs :
          count_votes(d, p) /\ UNCHANGED <<lastTally, reTallies>>
    \/ \E i \in 1..MaxPeriods :
          count_application_votes(i) /\ UNCHANGED <<lastTally, reTallies>>

SpecVote == InitVote /\ [][NextVote]_vars

----------------------------------------------------------------------------
(* Specification of the voting windows: periods are opened and tallied      *)
(* while time passes; no ballots are cast.                                  *)

InitOpen ==
    /\ InitLoans
    /\ riskScore = [u \in UserIds |-> 0]
    /\ InitVotes
    /\ InitBnpl
    /\ InitDist
    /\ InitRisk
    /\ now = 0
    /\ ret = [Ret("init", "", "ok") EXCEPT !.at = 0]

NextOpen ==
    \/ \E d \in DaoIds, l \in LoanIds :
          open_voting(d, l) /\ UNCHANGED <<lastTally, reTallies>>
    \/ \E a \in AppIds, d \in DaoIds \cup {UnknownDao} :
          open_voting_for_application(a, d) /\ UNCHANGED <<lastTally, reTallies>>
    \/ \E d \in DaoIds, p \in ProposalInputs :
          count_votes(d, p) /\ UNCHANGED <<lastTally, reTallies>>
    \/ \E i \in 1..MaxPeriods :
          count_application_votes(i) /\ UNCHANGED <<lastTally, reTallies>>
    \/ Tick(2)

SpecOpen == InitOpen /\ [][NextOpen]_vars

----------------------------------------------------------------------------
(* Specification of the tally as a function of the ballots: a loan period   *)
(* and an application period hold the same yes and no ballots, drawn in the *)
(* initial state; the tallies run any number of times while time passes.    *)

TallyBallots(dao_id, proposal_id, y, n) ==
    {[dao |-> dao_id, proposal_id |-> proposal_id, voter |-> v, vote |-> v <= y] :
        v \in 1..(y + n)}

InitTally ==
    /\ InitLoans
    /\ riskScore = [u \in UserIds |-> 0]
    /\ InitBnpl
    /\ InitDist
    /\ InitRisk
    /\ now = 0
    /\ ret = [Ret("init", "", "ok") EXCEPT !.at = 0]
    /\ \E y \in 0..MaxVotes, n \in 0..MaxVotes :
          /\ votingPeriods =
                <<[dao |-> "D1", proposal_id |-> UuidProposal(1), subject |-> "L1",
                   status |-> "Active", started_at |-> 0,
                   expires_at |-> LoanVotingDays, yes_votes |-> y, no_votes |-> n],
                  [dao |-> "D1", proposal_id |-> BnplProposal("A1"),
                   subject |-> "A1", status |-> "Active", started_at |-> 0,
                   expires_at |-> ApplicationVotingDays, yes_votes |-> y,
                   no_votes |-> n]>>
          /\ votingRecords = TallyBallots("D1", UuidProposal(1), y, n)
                             \cup TallyBallots("D1", BnplProposal("A1"), y, n)
    /\ lastTally = [k \in TallyOps \X (1..2) |-> NoTally]
    /\ reTallies = 0

\* History of the tallies: the result per (activity, period), and their number
ObserveTally ==
    /\ lastTally' = IF ret'.err = "ok"
                    THEN [lastTally EXCEPT ![<<ret'.op, ret'.period>>] =
                             [ret' EXCEPT !.at = 0]]
                    ELSE lastTally
    /\ reTallies' = IF /\ ret'.err = "ok"
                       /\ lastTally[<<ret'.op, ret'.period>>] # NoTally
                       /\ reTallies < MaxReTallies
                    THEN reTallies + 1 ELSE reTallies

NextTally ==
    \/ \E d \in DaoIds \cup {UnknownDao}, p \in ProposalInputs :
          count_votes(d, p) /\ ObserveTally
    \/ \E i \in 1..3 : count_application_votes(i) /\ ObserveTally
    \/ Tick(ApplicationVotingDays + 1)

SpecTally == InitTally /\ [][NextTally]_vars

----------------------------------------------------------------------------
(* Specification of the BNPL installment records *)

BnplAmounts == {10, 100}

InitBnplSpec ==
    /\ InitLoans
    /\ riskScore = [u \in UserIds |-> 0]
    /\ InitVotes
    /\ InitBnpl
    /\ InitDist
    /\ InitRisk
    /\ now = 0
    /\ ret = [Ret("init", "", "ok") EXCEPT !.at = 0]

NextBnpl ==
    \/ \E a \in BnplAmounts : CalculateInstallments(a)
    \/ \E r \in RequestIds, o \in {"ok", "commit_fails"} :
          /\ calc.err = "ok"
          /\ schedule_bnpl_installments(r, calc.installment_2, calc.installment_3, o)
    \/ \E r \in RequestIds, h \in BOOLEAN, o \in {"ok", "commit_fails"} :
          store_x402_installment(r, 2, calculate_bnpl_installments(100).installment_2,
                                 InstallmentSpacing, h, o)
    \/ PassDays(InstallmentSpacing)

SpecBnpl == InitBnplSpec /\ [][NextBnpl]_vars

----------------------------------------------------------------------------
(* Specification of the late-fee evaluation of stored installments *)

NextLate ==
    \/ LET c == calculate_bnpl_installments(100) IN
       schedule_bnpl_installments("PR1", c.installment_2, c.installment_3, "ok")
    \/ \E k \in 1..2, h \in BOOLEAN :
          store_x402_installment("PR1", k,
                                 calculate_bnpl_installments(100).installment_2,
                                 InstallmentSpacing * (k - 1), h, "ok")
    \/ \E i \in 1..MaxPayments, o \in {"ok", "commit_fails"} :
          apply_bnpl_late_fee(i, o)
    \/ \E i \in 1..MaxPayments, o \in {"ok", "commit_fails"} :
          track_bnpl_payment_status(i, o)
    \/ PassDays(InstallmentSpacing)

SpecLate == InitBnplSpec /\ [][NextLate]_vars

----------------------------------------------------------------------------
(* Specification of the reminders: installments of an existing and of a     *)
(* missing payment request are stored Pending or Paid around the reminder   *)
(* window, turn Late, and are checked for reminders.                        *)

ReminderDueDates ==
    {ReminderWindowDays, ReminderWindowDays + 1,
     InstallmentSpacing - 1, InstallmentSpacing}

InitRemind ==
    /\ InitLoans
    /\ riskScore = [u \in UserIds |-> 0]
    /\ InitVotes
    /\ bnplPayments = <<>>
    /\ calc = NoCalc
    /\ paymentRequests \in
          {[r \in RequestIds |-> IF r = "PR1"
                                 THEN PaymentRequest("Created", MaxDay, TRUE, TRUE)
                                 ELSE x] :
             x \in {NoRequest, PaymentRequest("Created", MaxDay, FALSE, TRUE)}}
    /\ InitDist
    /\ InitRisk
    /\ now = 0
    /\ ret = [Ret("init", "", "ok") EXCEPT !.at = 0]

NextRemind ==
    \/ /\ bnplPayments = <<>>
       /\ LET c == calculate_bnpl_installments(100) IN
          schedule_bnpl_installments("PR1", c.installment_2, c.installment_3, "ok")
    \/ \E r \in RequestIds, d \in ReminderDueDates, h \in BOOLEAN :
          /\ Len(bnplPayments) < MaxReminderRows
          /\ store_x402_installment(r, 2,
                                    calculate_bnpl_installments(100).installment_2,
                                    d, h, "ok")
    \/ \E i \in 1..MaxReminderRows : apply_bnpl_late_fee(i, "ok")
    \/ \E i \in 1..MaxReminderRows : track_bnpl_payment_status(i, "ok")
    \/ check_bnpl_installment_reminders
    \/ PassDays(InstallmentSpacing)

SpecRemind == InitRemind /\ [][NextRemind]_vars

----------------------------------------------------------------------------
(* Specification of the payment requests: requests that are missing, valid, *)
(* expiring or without a user are validated and marked completed while time *)
(* passes.                                                                  *)

RequestRows ==
    {NoRequest} \cup
    {PaymentRequest("Created", e, p, r) :
        e \in {0, InstallmentSpacing}, p \in BOOLEAN, r \in BOOLEAN}

InitPay ==
    /\ InitLoans
    /\ riskScore = [u \in UserIds |-> 0]
    /\ InitVotes
    /\ bnplPayments = <<>>
    /\ calc = NoCalc
    /\ paymentRequests \in [RequestIds -> RequestRows]
    /\ InitDist
    /\ InitRisk
    /\ now = 0
    /\ ret = [Ret("init", "", "ok") EXCEPT !.at = 0]

NextPay ==
    \/ \E r \in RequestIds : validate_payment_request(r)
    \/ \E r \in RequestIds : validate_bnpl_payment_request(r)
    \/ \E r \in RequestIds, o \in {"ok", "commit_fails"} : mark_payment_completed(r, o)
    \/ \E r \in RequestIds, o \in {"ok", "commit_fails"} :
          mark_bnpl_payment_completed(r, o)
    \/ PassDays(InstallmentSpacing)

SpecPay == InitPay /\ [][NextPay]_vars

----------------------------------------------------------------------------
(* Specification of the installment calculation alone *)

InitCalc ==
    /\ InitLoans
    /\ riskScore = [u \in UserIds |-> 0]
    /\ InitVotes
    /\ InitBnpl
    /\ InitDist
    /\ InitRisk
    /\ now = 0
    /\ ret = [Ret("init", "", "ok") EXCEPT !.at = 0]

NextCalc == \E a \in 0..MaxAmount : CalculateInstallments(a)

SpecCalc == InitCalc /\ [][NextCalc]_vars

----------------------------------------------------------------------------
(* Specification of one distribution run over drawn totals and weights *)

VotingPowers == {0, 1, 16, 32, 30, 70}

LateFeeAmounts == {0, 49, 1000}

WeightLists == UNION {[1..n -> VotingPowers] : n \in 0..MaxParties}

InitDistSpec ==
    /\ InitLoans
    /\ riskScore = [u \in UserIds |-> 0]
    /\ InitVotes
    /\ InitBnpl
    /\ dist \in {[NoDist EXCEPT !.total = t, !.weights = w] :
                     t \in LateFeeAmounts, w \in WeightLists}
    /\ InitLedger
    /\ InitRisk
    /\ now = 0
    /\ ret = [Ret("init", "", "ok") EXCEPT !.at = 0]

NextDist ==
    \/ \E f \in SUBSET (1..MaxParties), o \in {"ok", "contract_fails"} :
          /\ dist.op = "none"
          /\ distribute_bnpl_late_fees("D1", dist.total, dist.weights, f, o)
    \/ \E f \in SUBSET (1..MaxParties), v \in BOOLEAN :
          /\ dist.op = "none"
          /\ distribute_loan_interest("L1", "D1", dist.total, dist.weights, f, v)
    \/ \E f \in SUBSET (1..MaxParties), v \in BOOLEAN :
          /\ dist.op = "none"
          /\ distribute_liquidation_funds("D1", dist.total, dist.weights, f, v)

SpecDist == InitDistSpec /\ [][NextDist]_vars

----------------------------------------------------------------------------
(* Specification of redelivery: the interest and liquidation distributions  *)
(* and the dissolution of one DAO are invoked again with the same inputs.   *)

RetryTotals == {0, 100}
RetryInvestments == {30, 70}

InitRetry ==
    /\ InitLoans
    /\ riskScore = [u \in UserIds |-> 0]
    /\ InitVotes
    /\ InitBnpl
    /\ dist \in {[NoDist EXCEPT !.total = t, !.weights = w] :
                     t \in RetryTotals,
                     w \in UNION {[1..n -> RetryInvestments] : n \in 1..MaxParties}}
    /\ InitLedger
    /\ InitRisk
    /\ now = 0
    /\ ret = [Ret("init", "", "ok") EXCEPT !.at = 0]

NextRetry ==
    \/ \E f \in SUBSET (1..MaxParties), v \in BOOLEAN :
          /\ invocations < MaxRuns
          /\ distribute_loan_interest("L1", "D1", dist.total, dist.weights, f, v)
    \/ \E f \in SUBSET (1..MaxParties), v \in BOOLEAN :
          /\ invocations < MaxRuns
          /\ distribute_liquidation_funds("D1", dist.total, dist.weights, f, v)
    \/ \E o \in {"ok", "contract_fails"} :
          /\ dao["D1"].dissolve_calls < MaxRuns
          /\ dissolve_dao_on_chain("D1", o)

SpecRetry == InitRetry /\ [][NextRetry]_vars

----------------------------------------------------------------------------
(* Specification of the risk score: events, inactivity check and decay *)

InitRiskSpec ==
    /\ InitLoans
    /\ riskScore \in [UserIds -> {0, 1}]
    /\ InitVotes
    /\ InitBnpl
    /\ InitDist
    /\ InitRisk
    /\ now = 0
    /\ ret = [Ret("init", "", "ok") EXCEPT !.at = 0]

NextRisk ==
    \/ \E p \in UserIds, r \in UserIds,
          o \in {"ok", "payer_fails", "recipient_fails"} :
          p # r /\ update_risk_profiles(p, r, o)
    \/ \E p \in UserIds, t \in BOOLEAN, o \in {"ok", "service_fails"} :
          update_bnpl_risk_profile(p, t, o)
    \/ check_inactive_users(InactivityDays)
    \/ \E o \in {"ok", "service_fails"} : apply_decay(inactiveUsers, o)
    \/ \E l \in LoanIds, u \in UserIds : reject_loan_and_update_risk(l, u)
    \/ PassDays(InactivityDays)

SpecRisk == InitRiskSpec /\ [][NextRisk]_vars

----------------------------------------------------------------------------
(* Claims *)

\* C1: over any sequence of disburse_funds invocations for a loan, at most
\* one fund transfer is issued to the ledger for that loan.
DisburseAtMostOnce == \A l \in LoanIds : transfers[l] <= 1

\* C2: a loan whose status is Disbursed has a repayment schedule recorded.
DisbursedHasSchedule ==
    \A l \in LoanIds : loanStatus[l] = "Disbursed" => repaymentSchedules[l] >= 1

\* C3: a loan or application never has two Active voting periods at once.
AtMostOneActiveProposal ==
    \A i, j \in 1..Len(votingPeriods) :
        (/\ i # j
         /\ votingPeriods[i].status = "Active"
         /\ votingPeriods[j].status = "Active")
        => votingPeriods[i].subject # votingPeriods[j].subject

\* C4: there is at most one installment record per (payment request,
\* installment number), however often scheduling is invoked.
OneRecordPerInstallment ==
    \A i, j \in 1..Len(bnplPayments) :
        (/\ i # j
         /\ bnplPayments[i].payment_request_id = bnplPayments[j].payment_request_id)
        => bnplPayments[i].installment_number # bnplPayments[j].installment_number

TallyReturned == ret.op \in TallyOps /\ ret.err = "ok"

\* C5: either tally approves exactly when total = yes + no > 0 and
\* 2 * yes > total.
TallyIsStrictMajority ==
    TallyReturned =>
        /\ ret.total = ret.yes + ret.no
        /\ ret.approved <=> (ret.total > 0 /\ 2 * ret.yes > ret.total)

\* C5 witness: count_votes has returned approved for 6 yes against 5 no.
TallySixFiveApproved ==
    /\ ret.op = "count_votes" /\ ret.err = "ok"
    /\ ret.yes = 6 /\ ret.no = 5 /\ ret.approved

\* C6: a tally never approves with no ballots nor on a tie, before or after
\* the period's expires_at.
NoApprovalWithoutMajority ==
    TallyReturned =>
        /\ ret.total = 0 => ~ret.approved
        /\ 2 * ret.yes = ret.total => ~ret.approved

\* C6 witness: an application tally run after expires_at, with no ballots,
\* has returned not approved.
EmptyTallyAfterExpiry ==
    /\ ret.op = "count_application_votes" /\ ret.err = "ok"
    /\ ret.total = 0 /\ ~ret.approved
    /\ ret.at > votingPeriods[ret.period].expires_at

\* C7: a tally step leaves every ballot as it was, and returns what the
\* previous tally of the same period by the same activity returned.
TallyIsPure ==
    [][(ret'.op \in TallyOps /\ ret'.err = "ok") =>
          /\ votingRecords' = votingRecords
          /\ \A i \in 1..Len(votingPeriods) :
                /\ votingPeriods'[i].yes_votes = votingPeriods[i].yes_votes
                /\ votingPeriods'[i].no_votes = votingPeriods[i].no_votes
          /\ lastTally[<<ret'.op, ret'.period>>] # NoTally =>
                [ret' EXCEPT !.at = 0] = lastTally[<<ret'.op, ret'.period>>]]_vars

\* C7 witness: count_votes has been repeated on a period with ballots after
\* the loan voting window has passed.
TallyRepeated ==
    /\ reTallies >= 1
    /\ ret.op = "count_votes" /\ ret.err = "ok" /\ ret.total > 0 /\ ret.approved
    /\ ret.at > votingPeriods[ret.period].expires_at

\* C8: once a tally has completed for a voting period, the period is Closed.
TallyClosesProposal ==
    TallyReturned => votingPeriods[ret.period].status = "Closed"

\* C9: a loan or application in a terminal status keeps that status.
TerminalAbsorbing ==
    [][/\ \A l \in LoanIds :
             loanStatus[l] \in TerminalStatuses => loanStatus'[l] = loanStatus[l]
       /\ \A a \in AppIds :
             appStatus[a] \in TerminalStatuses => appStatus'[a] = appStatus[a]]_vars

\* C9 witness: a lifecycle activity has been invoked on a loan that was
\* already in a terminal status, and was refused.
TerminalLoanReinvoked ==
    /\ ret.op \in {"approve_loan_on_chain", "disburse_funds",
                   "reject_loan_and_update_risk"}
    /\ ret.err = "InvalidState"
    /\ loanStatus[ret.id] \in TerminalStatuses

\* C10: a loan becomes Disbursed only in a step that confirms its transfer,
\* and a disburse_funds step without a confirmed transfer leaves its status.
DisbursedOnlyAfterTransfer ==
    [][\A l \in LoanIds :
          /\ (loanStatus'[l] = "Disbursed" /\ loanStatus[l] # "Disbursed")
                => transfers'[l] = transfers[l] + 1
          /\ (ret'.op = "disburse_funds" /\ ret'.id = l
              /\ transfers'[l] = transfers[l])
                => loanStatus'[l] = loanStatus[l]]_vars

\* C10 witness: disburse_funds has returned a hash and the loan is Disbursed.
DisbursedAfterConfirmedTransfer ==
    /\ ret.op = "disburse_funds" /\ ret.err = "ok"
    /\ loanStatus[ret.id] = "Disbursed" /\ transfers[ret.id] = 1

\* C11: for every amount >= 0 the three installments add up to exactly that
\* amount, so the calculation never raises its sum-mismatch error.
InstallmentsSumToPrincipal ==
    calc.err # "none" =>
        /\ calc.err = "ok"
        /\ calc.installment_1 + calc.installment_2 + calc.installment_3
               = calc.amount_token

InstallmentsWithRemainder ==
    /\ calc.err = "ok"
    /\ calc.amount_token % 3 = 2
    /\ calc.installment_1 + calc.installment_2 + calc.installment_3
           = calc.amount_token

\* C12: installments 2 and 3 are the amount divided by 3, rounded down, and
\* installment 1 is that plus the whole remainder (100 gives 34, 33, 33).
RemainderOnFirstInstallment ==
    calc.err = "ok" =>
        /\ calc.installment_2 = calc.installment_3
        /\ 3 * calc.installment_2 <= calc.amount_token
        /\ calc.amount_token < 3 * calc.installment_2 + 3
        /\ calc.installment_1 = calc.amount_token - 2 * calc.installment_2

HundredInThree ==
    /\ calc.err = "ok"
    /\ calc.amount_token = 100
    /\ <<calc.installment_1, calc.installment_2, calc.installment_3>>
           = <<34, 33, 33>>

ScheduleReturned == ret.op = "schedule_bnpl_installments" /\ ret.err = "ok"

\* C13 as stated: once calculate_bnpl_installments and then
\* schedule_bnpl_installments have run for a payment request, its stored rows
\* cover the installment numbers 1..3 and their amounts add up to the amount.
StoredRowsCoverPlan ==
    ScheduleReturned =>
        LET rows == SelectSeq(bnplPayments,
                              LAMBDA p : p.payment_request_id = ret.id)
        IN /\ {rows[i].installment_number : i \in 1..Len(rows)} = 1..3
           /\ SumAmounts(rows) = calc.amount_token

\* C13, amended: every successful schedule_bnpl_installments run fed from the
\* calculation adds exactly the rows of installments 2 and 3 of its payment
\* request (installment 1 gets no row), and their amounts together with
\* installment_1 of the calculation add up to the amount.
ScheduleStoresLaterInstallments ==
    [][(ret'.op = "schedule_bnpl_installments" /\ ret'.err = "ok"
          /\ bnplPayments' # bnplPayments)
       => LET added == SubSeq(bnplPayments', Len(bnplPayments) + 1,
                              Len(bnplPayments'))
          IN /\ Len(added) = 2
             /\ <<added[1].installment_number, added[2].installment_number>>
                    = <<2, 3>>
             /\ \A i \in 1..2 : added[i].payment_request_id = ret'.id
             /\ calc.installment_1 + SumAmounts(added) = calc.amount_token]_vars

HundredScheduled ==
    /\ ScheduleReturned
    /\ calc.amount_token = 100
    /\ Len(bnplPayments) = 2
    /\ bnplPayments[1].amount + bnplPayments[2].amount = 66
    /\ <<bnplPayments[1].installment_number, bnplPayments[2].installment_number>>
           = <<2, 3>>

\* C14: the due dates of an installment do not depend on when the scheduling
\* step runs: rows of the same payment request and installment number carry
\* the same due date, whenever they were written.
DueDatesIndependentOfClock ==
    \A i, j \in 1..Len(bnplPayments) :
        (/\ bnplPayments[i].payment_request_id = bnplPayments[j].payment_request_id
         /\ bnplPayments[i].installment_number = bnplPayments[j].installment_number)
        => bnplPayments[i].due_date = bnplPayments[j].due_date

LateOps == {"apply_bnpl_late_fee", "track_bnpl_payment_status"}

\* C15: under any interleaving of apply_bnpl_late_fee and
\* track_bnpl_payment_status a Late installment stays Late with its stored
\* fee, the fee changes only on Pending -> Late, and the fee set there is
\* the amount times 5 / 100, rounded down.
LateFeeAppliedOnce ==
    [][\A i \in 1..Len(bnplPayments) :
         LET p == bnplPayments[i]
             q == bnplPayments'[i]
         IN /\ p.status = "Late" => (q.status = "Late" /\ q.late_fee = p.late_fee)
            /\ q.late_fee # p.late_fee => (p.status = "Pending" /\ q.status = "Late")
            /\ (p.status = "Pending" /\ q.status = "Late")
                  => /\ 100 * q.late_fee <= 5 * p.amount
                     /\ 5 * p.amount < 100 * (q.late_fee + 1)]_vars

LateRowEvaluatedAgain ==
    /\ ret.op = "apply_bnpl_late_fee"
    /\ ret.err = "ok"
    /\ ~ret.approved
    /\ ret.row \in 1..Len(bnplPayments)
    /\ bnplPayments[ret.row].status = "Late"
    /\ bnplPayments[ret.row].late_fee = 1

DistOps ==
    {"distribute_bnpl_late_fees", "distribute_loan_interest",
     "distribute_liquidation_funds"}

\* Every transfer of a late-fee run that got its member list succeeded
LateFeesAllSent ==
    /\ dist.op = "distribute_bnpl_late_fees"
    /\ dist.distributed
    /\ dist.failed = {}

\* C17: a distribution run never computes or transfers more than the total
\* it was given: the shares, and the amounts sent, add up to at most total.
DistributionWithinTotal ==
    dist.op \in DistOps =>
        /\ SumSeq(dist.shares) <= dist.total
        /\ SumSeq(dist.sent) <= dist.total

WholeTotalSent ==
    /\ dist.op \in DistOps
    /\ Len(dist.weights) >= 2
    /\ dist.total > 0
    /\ SumSeq(dist.sent) = dist.total

\* C18: when every transfer of a late-fee distribution succeeds, what is
\* left undistributed is at most the number of members minus one.
ShortfallBelowParties ==
    LateFeesAllSent =>
        dist.total - SumSeq(dist.sent) <= Len(dist.weights) - 1

\* C19: in a late-fee distribution every member with voting power receives
\* the voting power times the total over the summed voting power, rounded
\* down (nothing when that is 0), and the whole total is handed out when
\* every such quotient is exact.
SharesAreExactFloor ==
    LateFeesAllSent =>
        LET n == Len(dist.weights)
            sum == SumSeq(dist.weights)
        IN /\ \A i \in 1..n :
                 /\ 0 <= dist.sent[i] * sum
                 /\ dist.sent[i] * sum <= dist.weights[i] * dist.total
                 /\ dist.weights[i] * dist.total < (dist.sent[i] + 1) * sum
           /\ (\A i \in 1..n : (dist.weights[i] * dist.total) % sum = 0)
                 => SumSeq(dist.sent) = dist.total

NothingToDistribute ==
    /\ dist.op \in DistOps
    /\ dist.err # "ExternalFailure"
    /\ (dist.total = 0 \/ SumSeq(dist.weights) = 0)

\* C20 as stated: with a total of 0 or weights adding up to 0 (the empty
\* list included) every distribution operation returns an empty distribution,
\* transfers nothing and raises no failure.
NothingToDistributeIsNoOp ==
    NothingToDistribute =>
        /\ dist.err = "ok"
        /\ SumSeq(dist.shares) = 0
        /\ SumSeq(dist.sent) = 0

\* C20, amended: with a total of 0 or weights adding up to 0 no distribution
\* operation transfers anything; it returns without a failure, except that
\* distribute_loan_interest and distribute_liquidation_funds raise a
\* validation failure when the total is positive and the investments add up
\* to 0.
NothingToDistributeNoTransfer ==
    NothingToDistribute =>
        /\ SumSeq(dist.shares) = 0
        /\ SumSeq(dist.sent) = 0
        /\ dist.err = IF /\ dist.op # "distribute_bnpl_late_fees"
                         /\ dist.total > 0
                      THEN "ValidationFailure" ELSE "ok"

ZeroTotalLoanInterest ==
    /\ dist.op = "distribute_loan_interest"
    /\ dist.total = 0
    /\ Len(dist.weights) = 2
    /\ SumSeq(dist.weights) = 0
    /\ dist.err = "ok"

\* C21: a failed transfer to one party does not stop a distribution: every
\* other party with a share is still paid, and the run returns its result
\* instead of raising.
TransferFailuresIsolated ==
    (dist.op \in DistOps /\ dist.failed # {}) =>
        /\ dist.err = "ok"
        /\ \A i \in 1..Len(dist.shares) :
              (dist.shares[i] > 0 /\ i \notin dist.failed)
                  => dist.sent[i] = dist.shares[i]

\* C22: no user's risk score is ever negative, whatever sequence of payment,
\* BNPL, decay and rejection events has been applied; decaying a score of 1
\* or 0 leaves 0.
RiskScoreNeverNegative == \A u \in UserIds : riskScore[u] >= 0

DecayedToZero ==
    /\ ret.op = "apply_decay"
    /\ ret.err = "ok"
    /\ \E u \in inactiveUsers :
          IsInactive(u, InactivityDays) /\ riskScore[u] = 0

\* C23: a successful update_risk_profiles adds 1 to the payer and 1 to the
\* recipient and changes nothing else; a successful update_bnpl_risk_profile
\* changes only the payer, by +2 on time and by -3 (floored at 0) when late.
ScoreEventsApplyDeltas ==
    [][/\ (ret'.op = "update_risk_profiles" /\ ret'.err = "ok"
           /\ riskScore' # riskScore)
          => \A u \in UserIds :
                riskScore'[u] = riskScore[u]
                                + (IF u = ret'.id THEN 1 ELSE 0)
                                + (IF u = ret'.id2 THEN 1 ELSE 0)
       /\ (ret'.op = "update_bnpl_risk_profile" /\ ret'.err = "ok"
           /\ riskScore' # riskScore)
          => \A u \in UserIds :
                riskScore'[u] =
                    IF u # ret'.id THEN riskScore[u]
                    ELSE IF ret'.on_time THEN riskScore[u] + 2
                    ELSE Max(0, riskScore[u] - 3)]_vars

PaymentScoredBoth ==
    /\ ret.op = "update_risk_profiles"
    /\ ret.err = "ok"
    /\ riskScore[ret.id] = 2
    /\ riskScore[ret.id2] = 1

\* C24: apply_decay lowers the score only of a user who is inactive at the
\* time it runs; a listed user who has transacted since the list was made
\* keeps their score.
DecayOnlyWhenStillInactive ==
    [][ret'.op = "apply_decay"
       => \A u \in UserIds :
             riskScore'[u] < riskScore[u] => IsInactive(u, InactivityDays)]_vars

ReactivatedUserKeptScore ==
    /\ ret.op = "apply_decay"
    /\ ret.err = "ok"
    /\ \E u \in inactiveUsers :
          /\ lastActivity[u] = now
          /\ now = InactivityDays
          /\ riskScore[u] = 1

\* C25: update_risk_profiles and update_bnpl_risk_profile never raise: they
\* return updated = True, or updated = False with an error field.
RiskUpdateNeverRaises ==
    ret.op \in {"update_risk_profiles", "update_bnpl_risk_profile"} =>
        \/ ret.err = "ok" /\ ret.approved
        \/ ret.err = "SoftFailure" /\ ~ret.approved

BnplRiskSoftFailure ==
    /\ ret.op = "update_bnpl_risk_profile"
    /\ ret.err = "SoftFailure"
    /\ ~ret.approved

\* C26: an update_risk_profiles invocation that reports updated = False has
\* changed neither the payer's nor the recipient's score.
FailedUpdateChangesNothing ==
    [][(ret'.op = "update_risk_profiles" /\ ret'.err = "SoftFailure")
       => riskScore' = riskScore]_vars

\* C27: a successful reject_loan_and_update_risk leaves the loan Rejected and
\* the borrower's score lowered by the penalty, floored at 0; no other score
\* changes.
RejectAppliesPenalty ==
    [][(ret'.op = "reject_loan_and_update_risk" /\ ret'.err = "ok"
          /\ loanStatus' # loanStatus)
       => /\ loanStatus'[ret'.id] = "Rejected"
          /\ \A u \in UserIds :
                riskScore'[u] = IF u = ret'.id2
                                THEN Max(0, riskScore[u] - RejectPenalty)
                                ELSE riskScore[u]]_vars

RejectedWithPenalty ==
    /\ ret.op = "reject_loan_and_update_risk"
    /\ ret.err = "ok"
    /\ loanStatus[ret.id] = "Rejected"
    /\ riskScore[ret.id2] + RejectPenalty = MaxScore

\* C29: a period added by open_voting is Active, starts now and expires 7 days
\* later; one added by open_voting_for_application is Active, starts now and
\* expires 3 days later; no step moves the window of an existing period.
VotingWindowByKind ==
    [][
        /\ (Len(votingPeriods') = Len(votingPeriods) + 1)
           => (LET p == votingPeriods'[Len(votingPeriods')] IN
                  /\ ret'.op \in {"open_voting", "open_voting_for_application"}
                  /\ ret'.period = Len(votingPeriods')
                  /\ p.status = "Active"
                  /\ p.started_at = now
                  /\ p.expires_at = now + (IF ret'.op = "open_voting" THEN 7 ELSE 3))
        /\ \A i \in 1..Len(votingPeriods) :
              /\ i <= Len(votingPeriods')
              /\ votingPeriods'[i].started_at = votingPeriods[i].started_at
              /\ votingPeriods'[i].expires_at = votingPeriods[i].expires_at
    ]_vars

LoanAndApplicationWindowsOpened ==
    /\ ret.op = "open_voting_for_application"
    /\ ret.err = "ok"
    /\ votingPeriods[ret.period].status = "Active"
    /\ votingPeriods[ret.period].expires_at = now + 3
    /\ \E i \in 1..Len(votingPeriods) :
          /\ votingPeriods[i].subject \in LoanIds
          /\ votingPeriods[i].expires_at = votingPeriods[i].started_at + 7

\* C28: once the DAO is dissolved, no step transfers liquidation funds and no
\* step dissolves it again.
LiquidationOnlyFromNonTerminal ==
    [][dao["D1"].status = "Dissolved"
       => /\ paid'.liquidation = paid.liquidation
          /\ dao'["D1"].dissolve_calls = dao["D1"].dissolve_calls]_vars

\* C30: over the invocations of distribute_loan_interest for one loan no
\* member has been transferred more than their share, and the transfers
\* together do not exceed the loan's total interest.
InterestTransferredOnce ==
    dist.op = "distribute_loan_interest"
    => /\ \A i \in 1..Len(dist.shares) : paid.interest[i] <= dist.shares[i]
       /\ SumSeq(paid.interest) <= dist.total

ApproveFailureChangesNothing ==
    [][(/\ ret'.op = "approve_loan_on_chain"
        /\ \/ ret'.err = "NotFound"
           \/ (ret'.err = "ExternalFailure" /\ approvals' = approvals))
       => (/\ approvals' = approvals
           /\ loanStatus' = loanStatus
           /\ repaymentSchedules' = repaymentSchedules)]_vars

ApproveContractCallFailed ==
    /\ ret.op = "approve_loan_on_chain"
    /\ ret.err = "ExternalFailure"
    /\ approvals[ret.id] = 0
    /\ loanStatus[ret.id] = "Requested"
    /\ repaymentSchedules[ret.id] = 0

\* C33: an interest or liquidation run whose sum validation failed has
\* returned normally, with every positive share transferred and reported as
\* computed from the inputs, exactly as a run whose validation passed.
SumValidationDoesNotAlter ==
    (dist.op \in {"distribute_loan_interest", "distribute_liquidation_funds"}
        /\ dist.sum_valid = "failed")
    => /\ ret.err = "ok"
       /\ dist = [InvestmentDistribution(dist.op, dist.total, dist.weights, {})
                     EXCEPT !.sum_valid = "failed"]
       /\ dist.distributed
       /\ dist.sent = dist.shares

SumValidationFailedAfterTransfers ==
    /\ dist.op = "distribute_loan_interest"
    /\ dist.sum_valid = "failed"
    /\ ret.op = "distribute_loan_interest"
    /\ SumSeq(dist.sent) > 0
    /\ paid.interest = AddSent(NoPaid.interest, dist.shares)

\* C34: check_bnpl_installment_reminders counts exactly the installments that
\* are Pending, due today or within the next 3 days, and whose payment
\* request and payer exist; it changes no installment.
RemindersCountPendingInWindow ==
    [][(ret'.op = "check_bnpl_installment_reminders" /\ now' = now)
       => /\ ret'.total =
               Cardinality({i \in 1..Len(bnplPayments) :
                   /\ bnplPayments[i].status = "Pending"
                   /\ now <= bnplPayments[i].due_date
                   /\ bnplPayments[i].due_date <= now + 3
                   /\ paymentRequests[bnplPayments[i].payment_request_id].status
                        # "Absent"
                   /\ paymentRequests[bnplPayments[i].payment_request_id].payer_exists})
          /\ bnplPayments' = bnplPayments]_vars

ReminderSkipsOverdueAndLate ==
    /\ ret.op = "check_bnpl_installment_reminders"
    /\ ret.at = now
    /\ ret.total = 1
    /\ Len(bnplPayments) = 2
    /\ \E i, j \in 1..2 :
          /\ bnplPayments[i].status = "Pending"
          /\ bnplPayments[i].due_date = now
          /\ bnplPayments[j].due_date < now
          /\ bnplPayments[j].status \in {"Pending", "Late"}

RECURSIVE TotalScore(_, _)
TotalScore(scores, user_ids) ==
    IF user_ids = {} THEN 0
    ELSE LET u == CHOOSE x \in user_ids : TRUE
         IN scores[u] + TotalScore(scores, user_ids \ {u})

\* C35: the total_decay_points apply_decay returns is the sum of the score
\* reductions it made, and users_affected is the number of users whose score
\* changed.
DecayReportMatchesDecay ==
    [][(ret'.op = "apply_decay" /\ ret'.err = "ok" /\ now' = now)
       => /\ ret'.yes = TotalScore(riskScore, UserIds) - TotalScore(riskScore', UserIds)
          /\ ret'.total = Cardinality({u \in UserIds : riskScore'[u] # riskScore[u]})]_vars

\* C36: no step takes a Paid installment out of Paid or a Late installment
\* out of Late or changes a stored late fee of a Late installment, and after
\* every step a Pending installment has late_fee 0 and a Late installment has
\* late_fee floor(amount * 5 / 100).
InstallmentStatusForwardOnly ==
    [][
        /\ \A i \in 1..Len(bnplPayments) :
              /\ i <= Len(bnplPayments')
              /\ bnplPayments[i].status = "Paid"
                    => bnplPayments'[i].status = "Paid"
              /\ bnplPayments[i].status = "Late"
                    => (bnplPayments'[i].status = "Late"
                          /\ bnplPayments'[i].late_fee = bnplPayments[i].late_fee)
        /\ \A i \in 1..Len(bnplPayments') :
              /\ bnplPayments'[i].status = "Pending"
                    => bnplPayments'[i].late_fee = 0
              /\ bnplPayments'[i].status = "Late"
                    => bnplPayments'[i].late_fee
                          = (bnplPayments'[i].amount * 5) \div 100
    ]_vars

PaidAndLateRowsEvaluatedAgain ==
    /\ ret.op = "track_bnpl_payment_status"
    /\ ret.err = "ok"
    /\ ret.at = now
    /\ ret.row \in 1..Len(bnplPayments)
    /\ bnplPayments[ret.row].status = "Paid"
    /\ bnplPayments[ret.row].due_date < now
    /\ \E j \in 1..Len(bnplPayments) :
          bnplPayments[j].status = "Late" /\ bnplPayments[j].late_fee > 0

\* C37: count_votes and count_application_votes, tallying the same yes and no
\* ballots, return the same approved value and the same counts.
TalliesDecideAlike ==
    \A i \in 1..2, j \in 1..2 :
        LET loan == lastTally[<<"count_votes", i>>]
            application == lastTally[<<"count_application_votes", j>>]
        IN (loan # NoTally /\ application # NoTally)
           => /\ loan.approved = application.approved
              /\ loan.total = application.total
              /\ loan.yes = application.yes
              /\ loan.no = application.no

BothTalliesOfNarrowMajority ==
    /\ lastTally[<<"count_votes", 1>>] # NoTally
    /\ lastTally[<<"count_application_votes", 2>>] # NoTally
    /\ lastTally[<<"count_votes", 1>>].approved
    /\ lastTally[<<"count_application_votes", 2>>].approved
    /\ lastTally[<<"count_votes", 1>>].yes = lastTally[<<"count_votes", 1>>].no + 1
    /\ lastTally[<<"count_votes", 1>>].total >= 5

ValidateOps == {"validate_payment_request", "validate_bnpl_payment_request"}

\* C38: a validation succeeds exactly when the request exists, is not
\* expired, has status Created and has both users; a Completed request stays
\* Completed, so every validation after a successful completion fails.
PaymentRequestProcessedOnce ==
    [][
        /\ (ret'.op \in ValidateOps /\ now' = now)
           => LET payment_request == paymentRequests[ret'.id] IN
              /\ paymentRequests' = paymentRequests
              /\ ret'.err = "ok"
                   <=> (/\ payment_request.status = "Created"
                        /\ now <= payment_request.expires_at
                        /\ payment_request.payer_exists
                        /\ payment_request.recipient_exists)
        /\ \A r \in RequestIds :
              paymentRequests[r].status = "Completed"
                 => paymentRequests'[r].status = "Completed"
    ]_vars

CompletedRequestValidatedAgain ==
    /\ ret.op \in ValidateOps
    /\ ret.err = "InvalidState"
    /\ paymentRequests[ret.id].status = "Completed"
    /\ now <= paymentRequests[ret.id].expires_at
    /\ paymentRequests[ret.id].payer_exists
    /\ paymentRequests[ret.id].recipient_exists

====
